---------------------------- MODULE Spec2Model ----------------------------
(***************************************************************************)
(* Model of the MLX inference gateway:                                     *)
(*   src/mlx_memory_optimized_server.py  HTTP handlers + model manager     *)
(*   src/mlx_email_helper.py             prompt helper client              *)
(*                                                                         *)
(* Three specifications share the module:                                  *)
(*   Spec        handler threads calling the model manager concurrently    *)
(*               (the manager's lock is what serialises them; the          *)
(*               sequential dispatch of HTTPServer is one of the           *)
(*               schedules of this specification);                         *)
(*   SpecServer  HTTPServer.serve_forever as the code runs it: one request *)
(*               handled to completion before the next is accepted, with   *)
(*               the full set of request bodies;                           *)
(*   SpecClient  one run of the prompt helper client.                      *)
(***************************************************************************)
EXTENDS Integers, Sequences, FiniteSets, TLC

(***************************************************************************)
(* Bounds of the model.                                                    *)
(***************************************************************************)
NumThreads == 2
MaxRequests == 2

Threads == 1..NumThreads

(***************************************************************************)
(* Program constants.                                                      *)
(***************************************************************************)
PromptLimit == 50000
PromptKeep == 8000
MaxTokensCap == 32768
DefaultMaxTokens == 512
OllamaChatMaxTokens == 3000
DefaultTemperature == 7
StubEcho == 100
ClientPromptKeep == 8000
ClientDefaultMaxTokens == 150

(***************************************************************************)
(* Strings.  A Python str is modelled as a run-length encoded sequence of  *)
(* characters: a sequence of pairs <<c, n>>, character c repeated n >= 1   *)
(* times, adjacent runs having different characters.  This keeps prompts   *)
(* of 50000 characters representable while every operation below acts on   *)
(* characters exactly as the Python operation does.                        *)
(***************************************************************************)
\* the sum of the counts of runs i..j of s
RECURSIVE Count(_, _, _)
Count(s, i, j) ==
    IF i > j THEN 0
    ELSE IF i = j THEN s[i][2]
    ELSE LET m == (i + j) \div 2 IN Count(s, i, m) + Count(s, m + 1, j)

\* canonical form of a sequence of runs with positive counts: maximal groups
\* of adjacent runs of one character are merged into one run
Norm(s) ==
    LET starts == {i \in 1..Len(s) : i = 1 \/ s[i][1] # s[i - 1][1]}
        start(k) == CHOOSE i \in starts :
                        Cardinality({j \in starts : j < i}) = k - 1
        end(k) == IF k = Cardinality(starts) THEN Len(s) ELSE start(k + 1) - 1
    IN  [k \in 1..Cardinality(starts) |->
            <<s[start(k)][1], Count(s, start(k), end(k))>>]

\* the str whose characters are the elements of the tuple chars
Str(chars) == Norm([i \in 1..Len(chars) |-> <<chars[i], 1>>])

\* c * n
Rep(c, n) == IF n <= 0 THEN <<>> ELSE <<<<c, n>>>>

EmptyStr == <<>>

\* len(s)
StrLen(s) == Count(s, 1, Len(s))

\* a + b: the runs of a then those of b, the run at the seam merged when
\* a ends with the character b starts with
Concat(a, b) ==
    IF Len(a) = 0 THEN b
    ELSE IF Len(b) = 0 THEN a
    ELSE IF a[Len(a)][1] = b[1][1]
         THEN SubSeq(a, 1, Len(a) - 1)
                 \o <<<<b[1][1], a[Len(a)][2] + b[1][2]>>>> \o Tail(b)
    ELSE a \o b

\* s[-k:] for k > 0
RECURSIVE LastChars(_, _)
LastChars(s, k) ==
    IF k <= 0 \/ Len(s) = 0 THEN <<>>
    ELSE LET last == s[Len(s)] IN
         IF last[2] >= k THEN <<<<last[1], k>>>>
         ELSE LastChars(SubSeq(s, 1, Len(s) - 1), k - last[2]) \o <<last>>

\* s[:k]
RECURSIVE FirstChars(_, _)
FirstChars(s, k) ==
    IF k <= 0 \/ Len(s) = 0 THEN <<>>
    ELSE IF s[1][2] >= k THEN <<<<s[1][1], k>>>>
    ELSE <<s[1]>> \o FirstChars(Tail(s), k - s[1][2])

Whitespace == {" ", "\n", "\t"}

\* s.strip()
RECURSIVE Strip(_)
Strip(s) ==
    IF Len(s) = 0 THEN <<>>
    ELSE IF s[1][1] \in Whitespace THEN Strip(Tail(s))
    ELSE IF s[Len(s)][1] \in Whitespace THEN Strip(SubSeq(s, 1, Len(s) - 1))
    ELSE s

\* sep.join(parts)
RECURSIVE Join(_, _)
Join(sep, parts) ==
    IF Len(parts) = 0 THEN <<>>
    ELSE IF Len(parts) = 1 THEN parts[1]
    ELSE Concat(Concat(parts[1], sep), Join(sep, Tail(parts)))

\* s.split(c) for a one-character separator c; cur is the piece being read
RECURSIVE SplitFrom(_, _, _)
SplitFrom(s, c, cur) ==
    IF Len(s) = 0 THEN <<cur>>
    ELSE IF s[1][1] = c
         THEN <<cur>> \o [i \in 1..(s[1][2] - 1) |-> <<>>]
                      \o SplitFrom(Tail(s), c, <<>>)
    ELSE SplitFrom(Tail(s), c, cur \o <<s[1]>>)

Split(s, c) == SplitFrom(s, c, <<>>)

\* c in s
Contains(s, c) == \E i \in 1..Len(s) : s[i][1] = c

\* s.split(c, 1) when c occurs in s: the text before and after the first c
SplitFirst(s, c) ==
    LET i == CHOOSE j \in 1..Len(s) :
                 s[j][1] = c /\ \A k \in 1..(j - 1) : s[k][1] # c
    IN  << SubSeq(s, 1, i - 1),
           Rep(c, s[i][2] - 1) \o SubSeq(s, i + 1, Len(s)) >>

\* s.replace(a, b) for one-character a and b
Replace(s, a, b) ==
    Norm([i \in 1..Len(s) |-> IF s[i][1] = a THEN <<b, s[i][2]>> ELSE s[i]])

Min(a, b) == IF a <= b THEN a ELSE b

(***************************************************************************)
(* Request bodies.  A body that json.loads accepts is [kind |-> "json",    *)
(* data |-> d] with d the decoded object (a function from the keys present *)
(* to their values); any other body is [kind |-> "text", text |-> s] with  *)
(* s the decoded text.  Text bodies contain no '%' escape.                 *)
(***************************************************************************)
\* d.get(key, default)
Get(d, key, default) == IF key \in DOMAIN d THEN d[key] ELSE default

\* the message of json.JSONDecodeError (abbreviated)
JsonErrorMsg == Str(<<"E", "x", "p", "e", "c", "t", "i", "n", "g", " ",
                      "v", "a", "l", "u", "e">>)

\* the message of the AttributeError raised by self.handle_completion_internal
NoInternalMsg == Str(<<"n", "o", " ", "a", "t", "t", "r", "i", "b", "u", "t",
                       "e", " ", "h", "a", "n", "d", "l", "e", "_", "c", "o",
                       "m", "p", "l", "e", "t", "i", "o", "n", "_", "i", "n",
                       "t", "e", "r", "n", "a", "l">>)

\* the message of the AttributeError raised by mx.metal.clear_cache
NoClearCacheMsg == Str(<<"n", "o", " ", "a", "t", "t", "r", "i", "b", "u",
                         "t", "e", " ", "c", "l", "e", "a", "r", "_", "c",
                         "a", "c", "h", "e">>)

ServerErrorPrefix == Str(<<"I", "n", "t", "e", "r", "n", "a", "l", " ", "S",
                           "e", "r", "v", "e", "r", " ", "E", "r", "r", "o",
                           "r", ":", " ">>)

NoPromptMsg == Str(<<"N", "o", " ", "p", "r", "o", "m", "p", "t", " ", "p",
                     "r", "o", "v", "i", "d", "e", "d">>)

NotFoundMsg == Str(<<"N", "o", "t", " ", "F", "o", "u", "n", "d">>)

GenerationErrorPrefix == Str(<<"E", "r", "r", "o", "r", " ", "g", "e", "n",
                               "e", "r", "a", "t", "i", "n", "g", " ", "r",
                               "e", "s", "p", "o", "n", "s", "e", ":", " ">>)

StubPrefix == Str(<<"M", "L", "X", " ", "n", "o", "t", " ", "a", "v", "a",
                    "i", "l", "a", "b", "l", "e", ".", " ", "W", "o", "u",
                    "l", "d", " ", "p", "r", "o", "c", "e", "s", "s", ":",
                    " ">>)

Ellipsis == Str(<<".", ".", ".">>)

\* what a handler decides before it calls the model manager
CallManager(prompt, max_tokens, temperature) ==
    [kind |-> "call", prompt |-> prompt, max_tokens |-> max_tokens,
     temperature |-> temperature]

\* self.send_error(status, message)
SendError(status, message) ==
    [kind |-> "error", status |-> status, message |-> message]

\* except Exception as e: self.send_error(500, f"Internal Server Error: {e}")
InternalError(e) == SendError(500, Concat(ServerErrorPrefix, e))

\* if len(prompt) > 50000: prompt = prompt[-8000:]
TruncatePrompt(prompt) ==
    IF StrLen(prompt) > PromptLimit THEN LastChars(prompt, PromptKeep)
    ELSE prompt

\* min(request_data.get('max_tokens', 512), 32768)
ClampMaxTokens(d) == Min(Get(d, "max_tokens", DefaultMaxTokens), MaxTokensCap)

\* handle_completion and handle_ollama_generate up to the manager call
CompletionRequest(body) ==
    IF body.kind # "json" THEN InternalError(JsonErrorMsg)
    ELSE CallManager(TruncatePrompt(Get(body.data, "prompt", EmptyStr)),
                     ClampMaxTokens(body.data),
                     Get(body.data, "temperature", DefaultTemperature))

\* f"{msg.get('role', 'user')}: {msg.get('content', '')}"
MessageLine(msg) ==
    Concat(Concat(Get(msg, "role", Str(<<"u", "s", "e", "r">>)),
                  Str(<<":", " ">>)),
           Get(msg, "content", EmptyStr))

\* "\n".join([... for msg in messages])
ChatPrompt(messages) ==
    Join(Str(<<"\n">>), [i \in 1..Len(messages) |-> MessageLine(messages[i])])

\* the completion_request dict handle_chat_completion builds
ChatCompletionRequest(d) ==
    [prompt |-> ChatPrompt(Get(d, "messages", <<>>)),
     max_tokens |-> Get(d, "max_tokens", DefaultMaxTokens),
     temperature |-> Get(d, "temperature", DefaultTemperature)]

\* handle_chat_completion: after the dict is built, the method
\* handle_completion_internal it calls is defined nowhere in the handler
\* class or its bases, so the call raises AttributeError, which the
\* handler's except clause answers with 500
ChatRequest(body) ==
    IF body.kind # "json" THEN InternalError(JsonErrorMsg)
    ELSE InternalError(NoInternalMsg)

\* urllib.parse.unquote after replace('+', ' '), on text without '%'
Unquote(s) == Replace(s, "+", " ")

\* urllib.parse.parse_qs as the sequence of (name, value) pairs it keeps:
\* pieces without '=' and pieces with a blank value are dropped
RECURSIVE ParsePairs(_)
ParsePairs(pieces) ==
    IF Len(pieces) = 0 THEN <<>>
    ELSE LET p == pieces[1] IN
         IF Len(p) = 0 \/ ~Contains(p, "=") THEN ParsePairs(Tail(pieces))
         ELSE LET nv == SplitFirst(p, "=") IN
              IF StrLen(nv[2]) = 0 THEN ParsePairs(Tail(pieces))
              ELSE <<<<Unquote(nv[1]), Unquote(nv[2])>>>>
                       \o ParsePairs(Tail(pieces))

parse_qs(text) == ParsePairs(Split(text, "&"))

\* key in form_data
InForm(form, key) == \E i \in 1..Len(form) : form[i][1] = key

\* form_data[key][0]
FormFirst(form, key) ==
    form[CHOOSE i \in 1..Len(form) :
            form[i][1] = key /\ \A j \in 1..(i - 1) : form[j][1] # key][2]

FormKeys == << Str(<<"p", "r", "o", "m", "p", "t">>),
               Str(<<"m", "e", "s", "s", "a", "g", "e">>),
               Str(<<"i", "n", "p", "u", "t">>),
               Str(<<"t", "e", "x", "t">>) >>

\* for key in ['prompt', 'message', 'input', 'text']: first key present
RECURSIVE FormPrompt(_, _)
FormPrompt(form, keys) ==
    IF Len(keys) = 0 THEN EmptyStr
    ELSE IF InForm(form, keys[1]) THEN FormFirst(form, keys[1])
    ELSE FormPrompt(form, Tail(keys))

\* the prompt handle_ollama_chat extracts.  parse_qs does not raise on the
\* decoded text, so the except branch that would take the raw body
\* (post_data.decode('utf-8').strip()) is never entered.
OllamaChatPrompt(body) ==
    IF body.kind = "json"
    THEN LET d == body.data IN
         IF "messages" \in DOMAIN d /\ Len(d["messages"]) > 0
         THEN Get(d["messages"][1], "content", EmptyStr)
         ELSE IF "prompt" \in DOMAIN d THEN d["prompt"]
         ELSE EmptyStr
    ELSE FormPrompt(parse_qs(body.text), FormKeys)

\* OllamaChatRequest without the check "if not prompt"
OllamaChatRequest_unchecked(body) ==
    CallManager(TruncatePrompt(OllamaChatPrompt(body)), OllamaChatMaxTokens,
                DefaultTemperature)

\* handle_ollama_chat up to the manager call
OllamaChatRequest(body) ==
    LET prompt == OllamaChatPrompt(body) IN
    IF StrLen(prompt) = 0 THEN SendError(400, NoPromptMsg)
    ELSE CallManager(TruncatePrompt(prompt), OllamaChatMaxTokens,
                     DefaultTemperature)

\* f"MLX not available. Would process: {prompt[:100]}..."
StubText(prompt) ==
    Concat(Concat(StubPrefix, FirstChars(prompt, StubEcho)), Ellipsis)

\* f"Error generating response: {str(e)}"
GenerationErrorText(e) == Concat(GenerationErrorPrefix, e)

(***************************************************************************)
(* Inputs of the server.                                                   *)
(***************************************************************************)
Json(d) == [kind |-> "json", data |-> d]
Text(chars) == [kind |-> "text", text |-> Str(chars)]

Hi == Str(<<"h", "i">>)
User == Str(<<"u", "s", "e", "r">>)

Bodies ==
    << Text(<<"n", "o", "t", " ", "j", "s", "o", "n">>),
       Json(<<>>),
       Json([prompt |-> Hi]),
       Json([prompt |-> EmptyStr]),
       Json([prompt |-> Hi, max_tokens |-> 100]),
       Json([prompt |-> Hi, max_tokens |-> 32768]),
       Json([prompt |-> Hi, max_tokens |-> 32769]),
       Json([prompt |-> Hi, max_tokens |-> 40000, temperature |-> 2]),
       Json([prompt |-> Rep("a", 8001)]),
       Json([prompt |-> Rep("a", 50000)]),
       Json([prompt |-> Concat(Rep("a", 50000), Rep("b", 1))]),
       Json([prompt |-> Concat(Rep("a", 45000), Rep("b", 5001))]),
       Json([messages |-> <<[role |-> User, content |-> Hi]>>]),
       Json([messages |-> << [role |-> Str(<<"s", "y", "s", "t", "e", "m">>),
                              content |-> Str(<<"y", "o">>)],
                             [content |-> Hi] >>,
             max_tokens |-> 40000]),
       Json([messages |-> <<[role |-> User]>>, prompt |-> Hi]),
       Json([messages |-> <<>>, prompt |-> Hi]),
       Json([messages |-> <<[role |-> User,
                             content |-> Concat(Rep("a", 50000),
                                                Rep("b", 1))]>>]),
       Text(<<"h", "e", "l", "l", "o", " ", "w", "o", "r", "l", "d">>),
       Text(<<"p", "r", "o", "m", "p", "t", "=", "h", "i", "+", "t", "h",
              "e", "r", "e">>),
       Text(<<"p", "r", "o", "m", "p", "t", "=", "&", "t", "e", "x", "t",
              "=", "z", "z">>),
       Text(<<"m", "e", "s", "s", "a", "g", "e", "=", "h", "i">>),
       Text(<<"q", "=", "h", "i">>),
       Text(<<>>) >>

Paths == << "/v1/completions", "/v1/chat/completions", "/api/generate",
            "/api/chat", "/v1/models" >>

GenerationPaths == { "/v1/completions", "/v1/chat/completions",
                     "/api/generate", "/api/chat" }

\* every POST request the sequential server is offered
Requests ==
    [i \in 1..(Len(Paths) * Len(Bodies)) |->
        [path |-> Paths[((i - 1) % Len(Paths)) + 1],
         body |-> Bodies[((i - 1) \div Len(Paths)) + 1]]]

\* the POST requests offered to concurrent handler threads
ConcurrentRequests ==
    << [path |-> "/v1/completions", body |-> Json([prompt |-> Hi])],
       [path |-> "/v1/chat/completions",
        body |-> Json([messages |-> <<[role |-> User, content |-> Hi]>>])],
       [path |-> "/api/generate", body |-> Text(<<"h", "i">>)],
       [path |-> "/api/chat", body |-> Json(<<>>)] >>

\* texts the backend's generate may return
GeneratedTexts == { Str(<<"o", "k">>), Str(<<" ", "o", "k", "\n">>) }

\* messages of the exceptions the backend may raise
GenerateErrorMsg == Str(<<"b", "o", "o", "m">>)
ClearCacheErrorMsg == Str(<<"m", "e", "t", "a", "l">>)

(***************************************************************************)
(* State of the server.                                                    *)
(***************************************************************************)
VARIABLES
    MLX_AVAILABLE,       \* module flag set by the import of mlx
    has_clear_cache,     \* hasattr(mx.metal, 'clear_cache')
    locked,              \* MemoryOptimizedModelManager.lock is held
    pc,                  \* position of each handler thread
    request,             \* <<>> or <<[path, body]>> being handled
    completion_request,  \* <<>> or <<dict built by handle_chat_completion>>
    call,                \* <<>> or <<arguments of generate_with_memory_management>>
    response,            \* <<>> or <<text returned by generate>>
    exc,                 \* <<>> or <<message of the exception being handled>>
    result,              \* <<>> or <<what generate_with_memory_management did>>
    log,                 \* backend invocations made for the request, in order
    generated,           \* arguments of each backend generate invocation
    sent,                \* HTTP responses written for the request
    accepted             \* requests accepted so far

server_vars == << MLX_AVAILABLE, has_clear_cache, locked, pc, request,
                  completion_request, call, response, exc, result, log,
                  generated, sent, accepted >>

(***************************************************************************)
(* State of one run of the prompt helper client.                           *)
(***************************************************************************)
VARIABLES
    c_pc,       \* "off", "start", "post" (requests.post in flight), "exit"
    c_args,     \* parsed command line, with the input the run will read
    c_posted,   \* the HTTP requests issued, in order
    c_received, \* <<>> or <<what requests.post did>>
    c_stdout,   \* what was printed to standard output
    c_stderr,   \* what was printed to standard error
    c_exit      \* <<>> while running, then <<exit status>>

client_vars ==
    << c_pc, c_args, c_posted, c_received, c_stdout, c_stderr, c_exit >>

\* positions between acquiring and releasing self.lock
HoldingLock == { "clear_before", "generate", "generating", "clear_after",
                 "except", "release" }

ServerInit ==
    /\ MLX_AVAILABLE \in BOOLEAN
    /\ has_clear_cache \in BOOLEAN
    /\ locked = FALSE
    /\ pc = [t \in Threads |-> "idle"]
    /\ request = [t \in Threads |-> <<>>]
    /\ completion_request = [t \in Threads |-> <<>>]
    /\ call = [t \in Threads |-> <<>>]
    /\ response = [t \in Threads |-> <<>>]
    /\ exc = [t \in Threads |-> <<>>]
    /\ result = [t \in Threads |-> <<>>]
    /\ log = [t \in Threads |-> <<>>]
    /\ generated = [t \in Threads |-> <<>>]
    /\ sent = [t \in Threads |-> <<>>]
    /\ accepted = 0

Path(t) == request[t][1].path
Body(t) == request[t][1].body

\* a handler's decision taken: answer the error, or call the manager
Decide(t, d) ==
    IF d.kind = "error"
    THEN /\ sent' = [sent EXCEPT ![t] =
                        Append(@, [status |-> d.status, shape |-> "error",
                                   text |-> d.message])]
         /\ pc' = [pc EXCEPT ![t] = "done"]
         /\ call' = call
    ELSE /\ call' = [call EXCEPT ![t] =
                        <<[prompt |-> d.prompt, max_tokens |-> d.max_tokens,
                           temperature |-> d.temperature]>>]
         /\ pc' = [pc EXCEPT ![t] = "call"]
         /\ sent' = sent

\* a request r reaches do_POST on thread t; sequential: HTTPServer accepts
\* it only when no other request is being handled
do_POST(t, r, sequential) ==
    /\ pc[t] = "idle"
    /\ accepted < MaxRequests
    /\ sequential => \A u \in Threads : pc[u] = "idle"
    /\ accepted' = accepted + 1
    /\ request' = [request EXCEPT ![t] = <<r>>]
    /\ IF r.path \in GenerationPaths
       THEN /\ pc' = [pc EXCEPT ![t] = "handle"]
            /\ sent' = sent
       ELSE /\ pc' = [pc EXCEPT ![t] = "done"]
            /\ sent' = [sent EXCEPT ![t] =
                           Append(@, [status |-> 404, shape |-> "error",
                                      text |-> NotFoundMsg])]
    /\ UNCHANGED << client_vars, MLX_AVAILABLE, has_clear_cache, locked,
                    completion_request, call, response, exc, result, log,
                    generated >>

\* handle_completion up to the call of the model manager
handle_completion(t) ==
    /\ pc[t] = "handle"
    /\ Path(t) = "/v1/completions"
    /\ Decide(t, CompletionRequest(Body(t)))
    /\ UNCHANGED << client_vars, MLX_AVAILABLE, has_clear_cache, locked,
                    request, completion_request, response, exc, result, log,
                    generated, accepted >>

\* handle_chat_completion, whole: it never reaches the model manager
handle_chat_completion(t) ==
    /\ pc[t] = "handle"
    /\ Path(t) = "/v1/chat/completions"
    /\ completion_request' =
          [completion_request EXCEPT ![t] =
              IF Body(t).kind = "json"
              THEN <<ChatCompletionRequest(Body(t).data)>> ELSE <<>>]
    /\ Decide(t, ChatRequest(Body(t)))
    /\ UNCHANGED << client_vars, MLX_AVAILABLE, has_clear_cache, locked,
                    request, response, exc, result, log, generated,
                    accepted >>

\* handle_ollama_generate up to the call of the model manager
handle_ollama_generate(t) ==
    /\ pc[t] = "handle"
    /\ Path(t) = "/api/generate"
    /\ Decide(t, CompletionRequest(Body(t)))
    /\ UNCHANGED << client_vars, MLX_AVAILABLE, has_clear_cache, locked,
                    request, completion_request, response, exc, result, log,
                    generated, accepted >>

\* handle_ollama_chat up to the call of the model manager
handle_ollama_chat(t) ==
    /\ pc[t] = "handle"
    /\ Path(t) = "/api/chat"
    /\ Decide(t, OllamaChatRequest(Body(t)))
    /\ UNCHANGED << client_vars, MLX_AVAILABLE, has_clear_cache, locked,
                    request, completion_request, response, exc, result, log,
                    generated, accepted >>

\* the response a handler writes for the text the model manager returned:
\* choices[0].text on /v1/completions, "response" on the Ollama endpoints,
\* stripped on /api/chat
ResponseFor(path, text) ==
    [status |-> 200,
     shape |-> IF path = "/v1/completions" THEN "text_completion"
               ELSE "ollama",
     text |-> IF path = "/api/chat" THEN Strip(text) ELSE text]

\* the rest of a handler once generate_with_memory_management is over:
\* the 200 response, or 500 when an exception came out of the call
send_response(t) ==
    /\ pc[t] = "return"
    /\ sent' = [sent EXCEPT ![t] =
                   Append(@, IF result[t][1].kind = "return"
                             THEN ResponseFor(Path(t), result[t][1].text)
                             ELSE [status |-> 500, shape |-> "error",
                                   text |-> Concat(ServerErrorPrefix,
                                                   result[t][1].text)])]
    /\ pc' = [pc EXCEPT ![t] = "done"]
    /\ UNCHANGED << client_vars, MLX_AVAILABLE, has_clear_cache, locked,
                    request, completion_request, call, response, exc, result,
                    log, generated, accepted >>

(***************************************************************************)
(* MemoryOptimizedModelManager.generate_with_memory_management, one action *)
(* per step of the method.                                                 *)
(***************************************************************************)
\* the method returns text (kind "return") or lets an exception escape
Returned(text) == [kind |-> "return", text |-> text]
Raised(e) == [kind |-> "raise", text |-> e]

\* entry: without MLX the placeholder is returned and the lock not touched
generate_with_memory_management(t) ==
    /\ pc[t] = "call"
    /\ IF ~MLX_AVAILABLE
       THEN /\ result' = [result EXCEPT ![t] =
                             <<Returned(StubText(call[t][1].prompt))>>]
            /\ pc' = [pc EXCEPT ![t] = "return"]
       ELSE /\ result' = result
            /\ pc' = [pc EXCEPT ![t] = "acquire"]
    /\ UNCHANGED << client_vars, MLX_AVAILABLE, has_clear_cache, locked, request,
                    completion_request, call, response, exc, log, generated,
                    sent, accepted >>

\* lock_acquire that does not wait for the lock to be free
lock_acquire_unguarded(t) ==
    /\ pc[t] = "acquire"
    /\ locked' = TRUE
    /\ pc' = [pc EXCEPT ![t] = "clear_before"]
    /\ UNCHANGED << client_vars, MLX_AVAILABLE, has_clear_cache, request,
                    completion_request, call, response, exc, result, log,
                    generated, sent, accepted >>

\* with self.lock: (threading.Lock.acquire blocks while the lock is held)
lock_acquire(t) ==
    /\ pc[t] = "acquire"
    /\ ~locked
    /\ locked' = TRUE
    /\ pc' = [pc EXCEPT ![t] = "clear_before"]
    /\ UNCHANGED << client_vars, MLX_AVAILABLE, has_clear_cache, request,
                    completion_request, call, response, exc, result, log,
                    generated, sent, accepted >>

\* clear_cache_before that goes to generate without clearing the cache
clear_cache_before_skipped(t) ==
    /\ pc[t] = "clear_before"
    /\ pc' = [pc EXCEPT ![t] = "generate"]
    /\ UNCHANGED << client_vars, MLX_AVAILABLE, has_clear_cache, locked,
                    request, completion_request, call, response, exc, result,
                    log, generated, sent, accepted >>

\* if hasattr(mx.metal, 'clear_cache'): mx.metal.clear_cache()
clear_cache_before(t) ==
    /\ pc[t] = "clear_before"
    /\ IF has_clear_cache
       THEN /\ log' = [log EXCEPT ![t] = Append(@, "clear")]
            /\ \/ /\ pc' = [pc EXCEPT ![t] = "generate"]
                  /\ exc' = exc
               \/ /\ pc' = [pc EXCEPT ![t] = "except"]
                  /\ exc' = [exc EXCEPT ![t] = <<ClearCacheErrorMsg>>]
       ELSE /\ log' = log
            /\ pc' = [pc EXCEPT ![t] = "generate"]
            /\ exc' = exc
    /\ UNCHANGED << client_vars, MLX_AVAILABLE, has_clear_cache, locked, request,
                    completion_request, call, response, result, generated,
                    sent, accepted >>

\* generate(self.model, self.tokenizer, prompt=prompt, max_tokens=max_tokens)
\* is entered
generate_call(t) ==
    /\ pc[t] = "generate"
    /\ log' = [log EXCEPT ![t] = Append(@, "generate")]
    /\ generated' = [generated EXCEPT ![t] =
                        Append(@, [prompt |-> call[t][1].prompt,
                                   max_tokens |-> call[t][1].max_tokens])]
    /\ pc' = [pc EXCEPT ![t] = "generating"]
    /\ UNCHANGED << client_vars, MLX_AVAILABLE, has_clear_cache, locked, request,
                    completion_request, call, response, exc, result, sent,
                    accepted >>

\* the backend's generate returns a text or raises
generate_return(t) ==
    /\ pc[t] = "generating"
    /\ \/ \E text \in GeneratedTexts :
             /\ response' = [response EXCEPT ![t] = <<text>>]
             /\ pc' = [pc EXCEPT ![t] = "clear_after"]
             /\ exc' = exc
       \/ /\ exc' = [exc EXCEPT ![t] = <<GenerateErrorMsg>>]
          /\ pc' = [pc EXCEPT ![t] = "except"]
          /\ response' = response
    /\ UNCHANGED << client_vars, MLX_AVAILABLE, has_clear_cache, locked, request,
                    completion_request, call, result, log, generated, sent,
                    accepted >>

\* mx.metal.clear_cache(); return response   (the call is not guarded by
\* hasattr: without the attribute it raises AttributeError)
clear_cache_after(t) ==
    /\ pc[t] = "clear_after"
    /\ IF has_clear_cache
       THEN /\ log' = [log EXCEPT ![t] = Append(@, "clear")]
            /\ \/ /\ result' = [result EXCEPT ![t] =
                                   <<Returned(response[t][1])>>]
                  /\ pc' = [pc EXCEPT ![t] = "release"]
                  /\ exc' = exc
               \/ /\ exc' = [exc EXCEPT ![t] = <<ClearCacheErrorMsg>>]
                  /\ pc' = [pc EXCEPT ![t] = "except"]
                  /\ result' = result
       ELSE /\ log' = log
            /\ exc' = [exc EXCEPT ![t] = <<NoClearCacheMsg>>]
            /\ pc' = [pc EXCEPT ![t] = "except"]
            /\ result' = result
    /\ UNCHANGED << client_vars, MLX_AVAILABLE, has_clear_cache, locked, request,
                    completion_request, call, response, generated, sent,
                    accepted >>

\* except Exception as e: clear the cache if it can be cleared, then
\* return f"Error generating response: {str(e)}"; an exception raised by
\* this clear_cache call is handled by nothing and leaves the method
except_handler(t) ==
    /\ pc[t] = "except"
    /\ IF has_clear_cache
       THEN /\ log' = [log EXCEPT ![t] = Append(@, "clear")]
            /\ \/ result' = [result EXCEPT ![t] =
                                <<Returned(GenerationErrorText(exc[t][1]))>>]
               \/ result' = [result EXCEPT ![t] =
                                <<Raised(ClearCacheErrorMsg)>>]
       ELSE /\ log' = log
            /\ result' = [result EXCEPT ![t] =
                             <<Returned(GenerationErrorText(exc[t][1]))>>]
    /\ pc' = [pc EXCEPT ![t] = "release"]
    /\ UNCHANGED << client_vars, MLX_AVAILABLE, has_clear_cache, locked, request,
                    completion_request, call, response, exc, generated, sent,
                    accepted >>

\* lock_release that keeps the lock when an exception leaves the block
lock_release_on_return_only(t) ==
    /\ pc[t] = "release"
    /\ locked' = (result[t][1].kind = "raise")
    /\ pc' = [pc EXCEPT ![t] = "return"]
    /\ UNCHANGED << client_vars, MLX_AVAILABLE, has_clear_cache, request,
                    completion_request, call, response, exc, result, log,
                    generated, sent, accepted >>

\* leaving the with block releases the lock, on return and on exception
lock_release(t) ==
    /\ pc[t] = "release"
    /\ locked' = FALSE
    /\ pc' = [pc EXCEPT ![t] = "return"]
    /\ UNCHANGED << client_vars, MLX_AVAILABLE, has_clear_cache, request,
                    completion_request, call, response, exc, result, log,
                    generated, sent, accepted >>

\* the handler returns: the thread is free for another request
finish_request(t) ==
    /\ pc[t] = "done"
    /\ pc' = [pc EXCEPT ![t] = "idle"]
    /\ request' = [request EXCEPT ![t] = <<>>]
    /\ completion_request' = [completion_request EXCEPT ![t] = <<>>]
    /\ call' = [call EXCEPT ![t] = <<>>]
    /\ response' = [response EXCEPT ![t] = <<>>]
    /\ exc' = [exc EXCEPT ![t] = <<>>]
    /\ result' = [result EXCEPT ![t] = <<>>]
    /\ log' = [log EXCEPT ![t] = <<>>]
    /\ generated' = [generated EXCEPT ![t] = <<>>]
    /\ sent' = [sent EXCEPT ![t] = <<>>]
    /\ UNCHANGED << client_vars, MLX_AVAILABLE, has_clear_cache, locked, accepted >>

\* every step of a thread after its request was accepted
Step(t) ==
    \/ handle_completion(t)
    \/ handle_chat_completion(t)
    \/ handle_ollama_generate(t)
    \/ handle_ollama_chat(t)
    \/ send_response(t)
    \/ generate_with_memory_management(t)
    \/ lock_acquire(t)
    \/ clear_cache_before(t)
    \/ generate_call(t)
    \/ generate_return(t)
    \/ clear_cache_after(t)
    \/ except_handler(t)
    \/ lock_release(t)
    \/ finish_request(t)

(***************************************************************************)
(* The prompt helper client (mlx_email_helper.py).                         *)
(***************************************************************************)
SummarizePrefix ==
    Str(<<"S", "u", "m", "m", "a", "r", "i", "z", "e", " ", "t", "h", "i",
          "s", " ", "e", "m", "a", "i", "l", " ", "i", "n", " ", "2", "-",
          "3", " ", "s", "e", "n", "t", "e", "n", "c", "e", "s", ":", "\n",
          "\n">>)

ReplyPrefix ==
    Str(<<"W", "r", "i", "t", "e", " ", "a", " ", "b", "r", "i", "e", "f",
          ",", " ", "p", "r", "o", "f", "e", "s", "s", "i", "o", "n", "a",
          "l", " ", "r", "e", "p", "l", "y", " ", "t", "o", " ", "t", "h",
          "i", "s", " ", "e", "m", "a", "i", "l", ":", "\n", "\n">>)

ReplySuffix == Str(<<"\n", "\n", "R", "e", "p", "l", "y", ":">>)

BlankLine == Str(<<"\n", "\n">>)

DefaultServerUrl == "http://localhost:8080"

\* inputs of a run: the text read and whether the named file can be read
ClientContents ==
    << EmptyStr, Str(<<" ", "\n">>), Hi, Rep("a", 8000), Rep("a", 9000) >>

ClientArgs ==
    [ action : {"summarize", "reply", "custom"},
      prompt : { <<>>, <<Str(<<"F", "i", "x", ":">>)>> },
      max_tokens : { ClientDefaultMaxTokens },
      server_url : { DefaultServerUrl, "http://gpu:9000" },
      input_file : { "none", "readable", "unreadable" },
      content : 1..Len(ClientContents) ]

\* what requests.post does: raise, or return a response.  A 200 response
\* body is undecodable, or decodes to the object d
HttpOutcomes ==
    << [kind |-> "Timeout"],
       [kind |-> "ConnectionError"],
       [kind |-> "RequestException"],
       [kind |-> "response", status |-> 500],
       [kind |-> "response", status |-> 404],
       [kind |-> "response", status |-> 200, json |-> FALSE],
       [kind |-> "response", status |-> 200, json |-> TRUE, data |-> <<>>],
       [kind |-> "response", status |-> 200, json |-> TRUE,
        data |-> [choices |-> <<>>]],
       [kind |-> "response", status |-> 200, json |-> TRUE,
        data |-> [choices |-> << [index |-> 0] >>]],
       [kind |-> "response", status |-> 200, json |-> TRUE,
        data |-> [choices |-> << [text |-> Str(<<"o", "k">>)] >>]],
       [kind |-> "response", status |-> 200, json |-> TRUE,
        data |-> [choices |-> << [text |-> Str(<<" ", "o", "k", "\n">>)],
                                 [text |-> Hi] >>]],
       [kind |-> "response", status |-> 200, json |-> TRUE,
        data |-> [choices |-> << [text |-> EmptyStr] >>]],
       [kind |-> "response", status |-> 200, json |-> TRUE,
        data |-> [choices |-> << [text |-> Str(<<" ", "\n">>)] >>]] >>

\* print(..., file=sys.stderr)
Error(text) == [level |-> "ERROR", text |-> text]
Info(text) == [level |-> "INFO", text |-> text]

\* the prompt main hands to call_mlx_api, by action
ClientPrompt(args, content) ==
    IF args.action = "summarize" THEN Concat(SummarizePrefix, content)
    ELSE IF args.action = "reply"
         THEN Concat(Concat(ReplyPrefix, content), ReplySuffix)
    ELSE Concat(Concat(args.prompt[1], BlankLine), content)

\* summarize_email and generate_reply call call_mlx_api without server_url
ClientUrl(args) ==
    IF args.action = "custom" THEN args.server_url ELSE DefaultServerUrl

\* if len(prompt) > 8000: prompt = prompt[-8000:]
ClientTruncate(prompt) ==
    IF StrLen(prompt) > ClientPromptKeep
    THEN LastChars(prompt, ClientPromptKeep) ELSE prompt

\* call_mlx_api once requests.post is over: the value returned (<<>> for
\* None) and what it printed to standard error
ApiResult(o) ==
    IF o.kind = "Timeout"
    THEN [value |-> <<>>, err |-> <<Error("Request timed out")>>]
    ELSE IF o.kind = "ConnectionError"
    THEN [value |-> <<>>, err |-> <<Error("Could not connect to MLX server")>>]
    ELSE IF o.kind = "RequestException"
    THEN [value |-> <<>>, err |-> <<Error("exception")>>]
    ELSE IF o.status # 200
    THEN [value |-> <<>>, err |-> <<Error("HTTP status")>>]
    ELSE IF ~o.json
    THEN [value |-> <<>>, err |-> <<Error("exception")>>]
    ELSE IF "choices" \in DOMAIN o.data /\ Len(o.data["choices"]) > 0
    THEN IF "text" \in DOMAIN o.data["choices"][1]
         THEN [value |-> <<Strip(o.data["choices"][1]["text"])>>,
               err |-> <<>>]
         ELSE [value |-> <<>>, err |-> <<Error("exception")>>]
    ELSE [value |-> <<>>, err |-> <<Error("Unexpected response format")>>]

\* if result: (neither None nor the empty string)
Truthy(value) == Len(value) > 0 /\ StrLen(value[1]) > 0

\* sys.exit(1) after an error message
ExitWithError(text) ==
    /\ c_stderr' = Append(c_stderr, Error(text))
    /\ c_exit' = <<1>>
    /\ c_pc' = "exit"
    /\ UNCHANGED << c_args, c_posted, c_received, c_stdout >>

\* main from the start to requests.post, or to the exit taken before it
main ==
    /\ c_pc = "start"
    /\ LET content == ClientContents[c_args.content] IN
       IF c_args.input_file = "unreadable"
       THEN ExitWithError("Could not read file")
       ELSE IF StrLen(Strip(content)) = 0
       THEN ExitWithError("No input provided")
       ELSE IF c_args.action = "custom" /\ c_args.prompt = <<>>
       THEN ExitWithError("--prompt required for custom action")
       ELSE LET prompt == ClientPrompt(c_args, content) IN
            /\ c_stderr' = IF StrLen(prompt) > ClientPromptKeep
                           THEN Append(c_stderr, Info("Truncated prompt"))
                           ELSE c_stderr
            /\ c_posted' = Append(c_posted,
                                  [url |-> ClientUrl(c_args),
                                   path |-> "/v1/completions",
                                   prompt |-> ClientTruncate(prompt),
                                   max_tokens |-> c_args.max_tokens])
            /\ c_pc' = "post"
            /\ UNCHANGED << c_args, c_received, c_stdout, c_exit >>
    /\ UNCHANGED server_vars

\* requests.post is over with outcome o: the rest of call_mlx_api, then
\* the end of main (print(result), or sys.exit(1) without a message)
call_mlx_api(o) ==
    /\ c_pc = "post"
    /\ LET r == ApiResult(o) IN
       /\ c_stderr' = c_stderr \o r.err
       /\ IF Truthy(r.value)
          THEN /\ c_stdout' = Append(c_stdout, r.value[1])
               /\ c_exit' = <<0>>
          ELSE /\ c_stdout' = c_stdout
               /\ c_exit' = <<1>>
    /\ c_received' = <<o>>
    /\ c_pc' = "exit"
    /\ UNCHANGED << c_args, c_posted >>
    /\ UNCHANGED server_vars

ClientOff ==
    /\ c_pc = "off"
    /\ c_args = <<>>
    /\ c_posted = <<>>
    /\ c_received = <<>>
    /\ c_stdout = <<>>
    /\ c_stderr = <<>>
    /\ c_exit = <<>>

ClientInit ==
    /\ c_pc = "start"
    /\ c_args \in ClientArgs
    /\ c_posted = <<>>
    /\ c_received = <<>>
    /\ c_stdout = <<>>
    /\ c_stderr = <<>>
    /\ c_exit = <<>>

vars == << server_vars, client_vars >>

Init == ServerInit /\ ClientOff

Next ==
    \/ \E t \in Threads : \E i \in 1..Len(ConcurrentRequests) :
          do_POST(t, ConcurrentRequests[i], FALSE)
    \/ \E t \in Threads : Step(t)

Spec == Init /\ [][Next]_vars

ServerNext ==
    \/ \E t \in Threads : \E i \in 1..Len(Requests) :
          do_POST(t, Requests[i], TRUE)
    \/ \E t \in Threads : Step(t)

SpecServer == Init /\ [][ServerNext]_vars

ClientNext ==
    \/ main
    \/ \E i \in 1..Len(HttpOutcomes) : call_mlx_api(HttpOutcomes[i])

InitClient == ServerInit /\ ClientInit

SpecClient == InitClient /\ [][ClientNext]_vars

\* each backend call terminates and the server does not stop while a
\* handler can take a step (a caller waiting for a held lock cannot)
FairSpec == Spec /\ WF_vars(Next)

(***************************************************************************)
(* Properties.                                                             *)
(***************************************************************************)
\* positions of a thread whose call of the model manager is over
AfterManager == { "return", "done" }

\* C1: at most one caller is between acquiring and releasing the model
\* manager's lock, so backend invocations of different requests never
\* overlap.
C1_Serialized ==
    Cardinality({t \in Threads : pc[t] \in HoldingLock}) <= 1

\* C1 witness: one request is inside the backend's generate while another
\* waits for the lock.
C1_Witness ==
    \E t, u \in Threads :
        t # u /\ pc[t] = "generating" /\ pc[u] = "acquire"

C2_UnderLock ==
    \A t \in Threads :
        Len(log'[t]) > Len(log[t]) =>
            /\ locked /\ locked'
            /\ pc[t] \in HoldingLock /\ pc'[t] \in HoldingLock
            /\ \A u \in Threads \ {t} : pc[u] \notin HoldingLock

C3_Claim ==
    \A t \in Threads :
        (pc[t] = "done" /\ call[t] # <<>>) =>
            /\ result[t][1].kind = "return"
            /\ exc[t] # <<>> =>
                  result[t][1].text = GenerationErrorText(exc[t][1])
            /\ sent[t][1].status = 200

\* the prompt of a JSON request as section 4.2 of the specification
\* normalizes it, per endpoint
NormalizedPrompt(path, d) ==
    IF path = "/v1/chat/completions"
    THEN Join(Str(<<"\n">>),
              [i \in 1..Len(Get(d, "messages", <<>>)) |->
                  Concat(Concat(Get(d["messages"][i], "role", User),
                                Str(<<":", " ">>)),
                         Get(d["messages"][i], "content", EmptyStr))])
    ELSE IF path = "/api/chat" /\ "messages" \in DOMAIN d
            /\ Len(d["messages"]) > 0
    THEN Get(d["messages"][1], "content", EmptyStr)
    ELSE Get(d, "prompt", EmptyStr)

\* the trailing 8000 characters of a prompt of more than 50000
TrailingPart(p) == IF StrLen(p) > 50000 THEN LastChars(p, 8000) ELSE p

\* C4, as claimed: on each of the four generation endpoints the prompt
\* handed to the model manager is the normalized prompt, cut to its
\* trailing 8000 characters when longer than 50000.
C4_Claim ==
    \A t \in Threads :
        (pc[t] = "done" /\ Path(t) \in GenerationPaths
                        /\ Body(t).kind = "json") =>
            LET p == NormalizedPrompt(Path(t), Body(t).data) IN
            StrLen(p) > 0 =>
                call[t] # <<>> /\ call[t][1].prompt = TrailingPart(p)

\* C5, as claimed: the max_tokens forwarded to the backend is
\* min(requested or 512, 32768) on /v1/completions, /v1/chat/completions
\* and /api/generate, and 3000 on /api/chat.
C5_Claim ==
    \A t \in Threads :
        (pc[t] = "done" /\ Path(t) \in GenerationPaths
                        /\ Body(t).kind = "json") =>
            LET d == Body(t).data
                requested == IF "max_tokens" \in DOMAIN d
                             THEN d["max_tokens"] ELSE 512
                expected == IF Path(t) = "/api/chat" THEN 3000
                            ELSE IF requested <= 32768 THEN requested
                            ELSE 32768
            IN  StrLen(NormalizedPrompt(Path(t), d)) > 0 =>
                   /\ call[t] # <<>>
                   /\ call[t][1].max_tokens = expected
                   /\ \A i \in 1..Len(generated[t]) :
                         generated[t][i].max_tokens = expected

\* C6, as claimed: POST /v1/chat/completions with a JSON body holding a
\* messages list invokes the model manager with the joined "role: content"
\* lines and answers 200 with an OpenAI-style completion.
C6_Claim ==
    \A t \in Threads :
        (pc[t] = "done" /\ Path(t) = "/v1/chat/completions"
                        /\ Body(t).kind = "json"
                        /\ "messages" \in DOMAIN Body(t).data) =>
            /\ call[t] # <<>>
            /\ call[t][1].prompt =
                  TrailingPart(NormalizedPrompt(Path(t), Body(t).data))
            /\ Len(sent[t]) = 1
            /\ sent[t][1].status = 200
            /\ sent[t][1].shape = "text_completion"

\* C7, as claimed: POST /api/chat takes the first message's content, else
\* the JSON prompt field, else the first present form field among prompt,
\* message, input, text, else the raw body text, and submits it.
C7_Claim ==
    \A t \in Threads :
        (pc[t] = "done" /\ Path(t) = "/api/chat") =>
            LET b == Body(t)
                p == IF b.kind = "json"
                     THEN NormalizedPrompt("/api/chat", b.data)
                     ELSE IF \E i \in 1..Len(FormKeys) :
                                 InForm(parse_qs(b.text), FormKeys[i])
                     THEN FormPrompt(parse_qs(b.text), FormKeys)
                     ELSE Strip(b.text)
            IN  StrLen(p) > 0 =>
                   /\ call[t] # <<>>
                   /\ call[t][1].prompt = TrailingPart(p)
                   /\ sent[t][1].status # 400

\* C8, as claimed: on every generation endpoint a missing or empty prompt
\* or a body that cannot be parsed is answered with 400 without any backend
\* invocation, and 500 is kept for other exceptions.
C8_Original ==
    \A t \in Threads :
        (pc[t] = "done" /\ Path(t) \in GenerationPaths) =>
            LET inputError ==
                    IF Path(t) = "/api/chat"
                    THEN StrLen(OllamaChatPrompt(Body(t))) = 0
                    ELSE \/ Body(t).kind # "json"
                         \/ StrLen(NormalizedPrompt(Path(t),
                                                    Body(t).data)) = 0
            IN  /\ inputError =>
                      sent[t][1].status = 400 /\ generated[t] = <<>>
                /\ sent[t][1].status = 500 => ~inputError

\* C8, amended: 400 is answered by /api/chat only, exactly when the prompt
\* it extracts is empty, and then nothing reaches the model manager; on the
\* other generation endpoints a body that is not JSON is answered with 500,
\* also without backend invocation; on /v1/completions and /api/generate a
\* missing or empty prompt is submitted as the empty prompt.
C8_Amended ==
    \A t \in Threads :
        (pc[t] = "done" /\ Path(t) \in GenerationPaths) =>
            /\ sent[t][1].status = 400 <=>
                  /\ Path(t) = "/api/chat"
                  /\ StrLen(IF Body(t).kind = "json"
                            THEN NormalizedPrompt("/api/chat", Body(t).data)
                            ELSE FormPrompt(parse_qs(Body(t).text),
                                            FormKeys)) = 0
            /\ sent[t][1].status = 400 =>
                  call[t] = <<>> /\ generated[t] = <<>>
            /\ (Path(t) # "/api/chat" /\ Body(t).kind # "json") =>
                  /\ sent[t][1].status = 500
                  /\ call[t] = <<>> /\ generated[t] = <<>>
            /\ (Path(t) \in {"/v1/completions", "/api/generate"}
                  /\ Body(t).kind = "json"
                  /\ StrLen(Get(Body(t).data, "prompt", EmptyStr)) = 0) =>
                  /\ call[t] # <<>> /\ call[t][1].prompt = EmptyStr
                  /\ sent[t][1].status # 400

\* C8 witness: /api/chat has answered 400 to a JSON body without prompt.
C8_Witness ==
    \E t \in Threads :
        /\ pc[t] = "done"
        /\ Path(t) = "/api/chat"
        /\ Body(t).kind = "json"
        /\ sent[t] = <<[status |-> 400, shape |-> "error",
                        text |-> NoPromptMsg]>>
        /\ generated[t] = <<>>

\* C9, as claimed: a run of the client that ends with status 1 has reported
\* an error on standard error and written nothing to standard output, a
\* run that ends with status 0 has printed exactly the first choice's text,
\* and a run on empty input says "No input provided" and posts nothing.
C9_Claim ==
    c_pc = "exit" =>
        /\ c_exit \in {<<0>>, <<1>>}
        /\ c_exit = <<1>> =>
              /\ c_stdout = <<>>
              /\ \E i \in 1..Len(c_stderr) : c_stderr[i].level = "ERROR"
        /\ c_exit = <<0>> =>
              /\ c_received # <<>>
              /\ c_received[1].kind = "response"
              /\ c_received[1].status = 200
              /\ c_stdout =
                    <<Strip(c_received[1].data["choices"][1]["text"])>>
        /\ (c_args.input_file # "unreadable"
              /\ StrLen(Strip(ClientContents[c_args.content])) = 0) =>
              /\ c_posted = <<>>
              /\ c_stderr = <<Error("No input provided")>>
              /\ c_exit = <<1>>

\* C10, as claimed (its part a finite run refutes): a request that reached
\* the model manager and was answered made exactly one backend generate
\* invocation.
C10_Original ==
    \A t \in Threads :
        (pc[t] = "done" /\ call[t] # <<>>) => Len(generated[t]) = 1

\* the lock is held only by a caller inside the with block; a request is
\* answered once, with at most one generate invocation: exactly one unless
\* the backend is unavailable or the leading cache-clear raised
C10_Safety ==
    /\ locked => \E t \in Threads : pc[t] \in HoldingLock
    /\ \A t \in Threads :
          /\ Len(sent[t]) <= 1
          /\ Len(generated[t]) <= 1
          /\ pc[t] = "done" => Len(sent[t]) = 1
          /\ (pc[t] = "done" /\ call[t] # <<>>) =>
                (Len(generated[t]) = 1 <=>
                    (MLX_AVAILABLE /\ log[t] # <<"clear", "clear">>))

\* a caller leaves the wait for the lock only by acquiring it, and a
\* handler is over only after its response was sent
C10_Progress ==
    \A t \in Threads :
        /\ (pc[t] = "acquire" /\ pc'[t] # "acquire") =>
              (pc'[t] = "clear_before" /\ locked')
        /\ (pc[t] # "idle" /\ pc'[t] = "idle") =>
              (pc[t] = "done" /\ Len(sent[t]) = 1)

\* C10, amended: the lock is released on every exit path; under the
\* fairness of FairSpec no caller waits for the lock forever and every
\* accepted request is answered exactly once (every handler ends, and it
\* ends only after its one response), with at most one backend generate
\* invocation (none when the backend is unavailable or the leading
\* cache-clear raises).
C10_Amended ==
    /\ []C10_Safety
    /\ [][C10_Progress]_vars
    /\ <>[](~locked /\ \A t \in Threads : pc[t] = "idle")

\* C10 witness: an exception left the with block of one caller, and another
\* caller is inside it.
C10_Witness ==
    \E t, u \in Threads :
        /\ t # u
        /\ pc[t] \in AfterManager
        /\ Len(result[t]) = 1
        /\ result[t][1].kind = "raise"
        /\ pc[u] \in HoldingLock
        /\ locked

=============================================================================
